---- MODULE Spec2Model ----
(***************************************************************************)
(* A model of the angular-eslint lint builder: the option resolver         *)
(* resolveAndInstantiateESLint and the createBuilder callback that runs    *)
(* one lint invocation.                                                    *)
(*                                                                         *)
(* JavaScript values are tagged records; strings are sequences of text     *)
(* fragments, so that endsWith, split and join are computed, not assumed.  *)
(***************************************************************************)
EXTENDS Integers, Sequences, FiniteSets, TLC

---------------------------------------------------------------------------
(* JavaScript values *)

undefined == [t |-> "undefined"]

null == [t |-> "null"]

NaN == [t |-> "NaN"]

Bool(b) == [t |-> "boolean", v |-> b]

Str(s) == [t |-> "string", v |-> s]

Num(n) == [t |-> "number", v |-> n]

Arr(a) == [t |-> "array", v |-> a]

\* ToBoolean
Truthy(x) ==
  CASE x.t = "undefined" -> FALSE
    [] x.t = "null" -> FALSE
    [] x.t = "NaN" -> FALSE
    [] x.t = "boolean" -> x.v
    [] x.t = "string" -> x.v # <<>>
    [] x.t = "number" -> x.v # 0
    [] OTHER -> TRUE

\* a || b
JsOr(a, b) == IF Truthy(a) THEN a ELSE b

\* !a
JsNot(a) == Bool(~Truthy(a))

\* typeof a
TypeOf(a) == IF a.t = "null" \/ a.t = "array" THEN "object"
             ELSE IF a.t = "NaN" THEN "number" ELSE a.t

\* ToNumber, for the operands of the relational operators
ToNumber(a) ==
  CASE a.t = "number" -> a
    [] a.t = "null" -> Num(0)
    [] a.t = "boolean" -> Num(IF a.v THEN 1 ELSE 0)
    [] OTHER -> NaN

\* a < b on numbers: false as soon as one side is NaN
JsLt(a, b) ==
  LET x == ToNumber(a)
      y == ToNumber(b)
  IN x.t = "number" /\ y.t = "number" /\ x.v < y.v

\* a >= b
JsGe(a, b) ==
  LET x == ToNumber(a)
      y == ToNumber(b)
  IN x.t = "number" /\ y.t = "number" /\ x.v >= y.v

\* a > b
JsGt(a, b) == JsLt(b, a)

---------------------------------------------------------------------------
(* Strings as sequences of fragments *)

Range(s) == {s[i] : i \in 1..Len(s)}

\* a faulty variant of EndsWith: String.prototype.includes in its place
EndsWith_Includes(s, suffix) ==
  \E i \in 1..(Len(s) - Len(suffix) + 1) : SubSeq(s, i, i + Len(suffix) - 1) = suffix

\* String.prototype.endsWith
EndsWith(s, suffix) ==
  /\ Len(suffix) <= Len(s)
  /\ SubSeq(s, Len(s) - Len(suffix) + 1, Len(s)) = suffix

\* Array.prototype.join on an array of strings
RECURSIVE Join(_, _)
Join(strs, sep) ==
  IF strs = <<>> THEN <<>>
  ELSE IF Len(strs) = 1 THEN strs[1]
  ELSE strs[1] \o sep \o Join(Tail(strs), sep)

supportedFlatConfigNames ==
  << <<"eslint.config", ".js">>,
     <<"eslint.config", ".mjs">>,
     <<"eslint.config", ".cjs">>,
     <<"eslint.config", ".ts">>,
     <<"eslint.config", ".mts">>,
     <<"eslint.config", ".cts">> >>

---------------------------------------------------------------------------
(* Thrown errors and their messages *)

Throw(msg) == [threw |-> TRUE, error |-> msg]

MsgUnableToFindESLint == <<"Unable to find ESLint. Ensure ESLint is installed.">>

MsgStatsRequiresFlat == <<"The --stats option requires ESLint Flat Config">>

MsgFlatConfigName ==
  <<"When using the new Flat Config with ESLint, all configs must be named ">>
    \o Join(supportedFlatConfigNames, <<" or ">>)
    \o <<", and .eslintrc files may not be used. See https://eslint.org/docs/latest/use/configure/configuration-files">>

MsgNotApplicable(option) ==
  <<"For Flat Config, the ", option,
    " option is not applicable. See https://eslint.org/docs/latest/use/configure/configuration-files-new">>

MsgRemoved(option) ==
  <<"For Flat Config, ESLint removed ", option,
    " and so it is not supported as an option. See https://eslint.org/docs/latest/use/configure/configuration-files-new">>

---------------------------------------------------------------------------
(* resolveESLintClass: the eslint package is the environment, a record    *)
(* [installed, loadESLint, version, constructorThrows]                     *)

resolveESLintClass(useFlatConfig, module) ==
  IF ~module.installed THEN Throw(MsgUnableToFindESLint)
  ELSE IF module.loadESLint
    THEN [threw |-> FALSE,
          value |-> [flat |-> useFlatConfig, version |-> module.version]]
  ELSE IF ~useFlatConfig
    THEN [threw |-> FALSE, value |-> [flat |-> FALSE, version |-> module.version]]
  ELSE [threw |-> FALSE, value |-> [flat |-> TRUE, version |-> module.version]]

---------------------------------------------------------------------------
(* resolveAndInstantiateESLint *)

\* supportedFlatConfigNames.some((name) => eslintConfigPath.endsWith(name))
IsSupportedFlatConfigName(path) ==
  \E i \in 1..Len(supportedFlatConfigNames) :
    EndsWith(path, supportedFlatConfigNames[i])

\* the options common to both formats
CommonOptions(options) ==
  [fix |-> Bool(Truthy(options.fix)),
   cache |-> Bool(Truthy(options.cache)),
   cacheLocation |-> JsOr(options.cacheLocation, undefined),
   cacheStrategy |-> JsOr(options.cacheStrategy, undefined),
   errorOnUnmatchedPattern |-> Bool(FALSE)]

\* a faulty variant of FlatUnsupportedOption: the ignorePath check is missing
FlatUnsupportedOption_IgnorePathAllowed(options) ==
  IF TypeOf(options.useEslintrc) # "undefined"
    THEN Throw(MsgNotApplicable("useEslintrc"))
  ELSE IF options.resolvePluginsRelativeTo # undefined
    THEN Throw(MsgRemoved("resolvePluginsRelativeTo"))
  ELSE IF Truthy(options.reportUnusedDisableDirectives)
    THEN Throw(MsgRemoved("reportUnusedDisableDirectives"))
  ELSE [threw |-> FALSE]

\* the four legacy-only options, checked one after the other under flat config
FlatUnsupportedOption(options) ==
  IF TypeOf(options.useEslintrc) # "undefined"
    THEN Throw(MsgNotApplicable("useEslintrc"))
  ELSE IF options.resolvePluginsRelativeTo # undefined
    THEN Throw(MsgRemoved("resolvePluginsRelativeTo"))
  ELSE IF options.ignorePath # undefined
    THEN Throw(MsgRemoved("ignorePath"))
  ELSE IF Truthy(options.reportUnusedDisableDirectives)
    THEN Throw(MsgRemoved("reportUnusedDisableDirectives"))
  ELSE [threw |-> FALSE]

\* a faulty variant of FlatOverrideConfigFile: false is not collapsed to undefined
FlatOverrideConfigFile_NoCollapse(eslintConfigPath, options) ==
  IF TypeOf(options.noConfigLookup) # "undefined"
    THEN IF TypeOf(eslintConfigPath) = "string" THEN eslintConfigPath
         ELSE JsNot(JsNot(options.noConfigLookup))
  ELSE eslintConfigPath

\* a faulty variant of FlatOverrideConfigFile: configLookup is used unnegated
FlatOverrideConfigFile_LookupFlag(eslintConfigPath, options) ==
  IF TypeOf(options.noConfigLookup) # "undefined"
    THEN LET configLookup == JsNot(options.noConfigLookup)
             overrideConfigFile ==
               IF TypeOf(eslintConfigPath) = "string" THEN eslintConfigPath
               ELSE configLookup
         IN IF overrideConfigFile = Bool(FALSE) THEN undefined
            ELSE overrideConfigFile
  ELSE eslintConfigPath

\* overrideConfigFile under flat config
FlatOverrideConfigFile(eslintConfigPath, options) ==
  IF TypeOf(options.noConfigLookup) # "undefined"
    THEN LET configLookup == JsNot(options.noConfigLookup)
             overrideConfigFile ==
               IF TypeOf(eslintConfigPath) = "string" THEN eslintConfigPath
               ELSE JsNot(configLookup)
         IN IF overrideConfigFile = Bool(FALSE) THEN undefined
            ELSE overrideConfigFile
  ELSE eslintConfigPath

\* the options of the flat format only
FlatOptions(eslintConfigPath, options) ==
  [stats |-> Bool(Truthy(options.stats)),
   overrideConfigFile |-> FlatOverrideConfigFile(eslintConfigPath, options)]

\* a faulty variant of LegacyOptions: useEslintrc copies noEslintrc unnegated
LegacyOptions_UseEslintrcCopied(eslintConfigPath, options) ==
  [overrideConfigFile |-> eslintConfigPath,
   rulePaths |-> JsOr(options.rulesdir, Arr(<<>>)),
   resolvePluginsRelativeTo |-> JsOr(options.resolvePluginsRelativeTo, undefined),
   ignorePath |-> JsOr(options.ignorePath, undefined),
   useEslintrc |-> Bool(Truthy(options.noEslintrc)),
   reportUnusedDisableDirectives |->
     JsOr(options.reportUnusedDisableDirectives, undefined)]

\* the options of the legacy format only
LegacyOptions(eslintConfigPath, options) ==
  [overrideConfigFile |-> eslintConfigPath,
   rulePaths |-> JsOr(options.rulesdir, Arr(<<>>)),
   resolvePluginsRelativeTo |-> JsOr(options.resolvePluginsRelativeTo, undefined),
   ignorePath |-> JsOr(options.ignorePath, undefined),
   useEslintrc |-> JsNot(options.noEslintrc),
   reportUnusedDisableDirectives |->
     JsOr(options.reportUnusedDisableDirectives, undefined)]

\* new ESLint(eslintOptions); the constructor belongs to the eslint package
Instantiate(class, eslintOptions, module) ==
  IF module.constructorThrows THEN Throw(<<"Invalid Options">>)
  ELSE [threw |-> FALSE, ESLint |-> class, eslint |-> [options |-> eslintOptions]]

\* a faulty variant of StatsWithoutFlatConfig: the check is missing
StatsWithoutFlatConfig_Unchecked(options, useFlatConfig) == FALSE

\* the --stats check
StatsWithoutFlatConfig(options, useFlatConfig) ==
  Truthy(options.stats) /\ ~useFlatConfig

\* the config file name check
UnsupportedConfigName(eslintConfigPath, useFlatConfig) ==
  /\ useFlatConfig
  /\ Truthy(eslintConfigPath)
  /\ ~IsSupportedFlatConfigName(eslintConfigPath.v)

resolveAndInstantiateESLint(eslintConfigPath, options, useFlatConfig, module) ==
  IF StatsWithoutFlatConfig(options, useFlatConfig)
    THEN Throw(MsgStatsRequiresFlat)
  ELSE IF UnsupportedConfigName(eslintConfigPath, useFlatConfig)
    THEN Throw(MsgFlatConfigName)
  ELSE
    LET class == resolveESLintClass(useFlatConfig, module)
    IN IF class.threw THEN class
       ELSE IF useFlatConfig
         THEN LET bad == FlatUnsupportedOption(options)
              IN IF bad.threw THEN bad
                 ELSE Instantiate(class.value,
                        CommonOptions(options) @@ FlatOptions(eslintConfigPath, options),
                        module)
       ELSE Instantiate(class.value,
              CommonOptions(options) @@ LegacyOptions(eslintConfigPath, options),
              module)

---------------------------------------------------------------------------
(* Version strings: one fragment per character *)

Digits == <<"0", "1", "2", "3", "4", "5", "6", "7", "8", "9">>

IsDigit(c) == \E d \in 1..10 : Digits[d] = c

DigitValue(c) == (CHOOSE d \in 1..10 : Digits[d] = c) - 1

\* Number(str) for a string of characters: "" is 0, decimal digits are
\* their value, anything else is NaN
RECURSIVE DecimalValue(_)
DecimalValue(chars) ==
  IF chars = <<>> THEN 0
  ELSE 10 * DecimalValue(SubSeq(chars, 1, Len(chars) - 1))
         + DigitValue(chars[Len(chars)])

Number(chars) ==
  IF \A i \in 1..Len(chars) : IsDigit(chars[i]) THEN Num(DecimalValue(chars))
  ELSE NaN

\* String.prototype.split(separator): the pieces between the separators
RECURSIVE Split(_, _)
Split(chars, sep) ==
  IF \A i \in 1..Len(chars) : chars[i] # sep THEN <<chars>>
  ELSE LET k == CHOOSE i \in 1..Len(chars) :
                  chars[i] = sep /\ \A j \in 1..(i - 1) : chars[j] # sep
       IN <<SubSeq(chars, 1, k - 1)>> \o Split(SubSeq(chars, k + 1, Len(chars)), sep)

\* the decimal digits of a natural number
RECURSIVE NatToChars(_)
NatToChars(n) ==
  IF n < 10 THEN <<Digits[n + 1]>>
  ELSE NatToChars(n \div 10) \o <<Digits[(n % 10) + 1]>>

\* "major.minor.patch" from its numeric components
VersionString(parts) ==
  Join([i \in 1..Len(parts) |-> NatToChars(parts[i])], <<".">>)

\* a faulty variant of VersionUnsupported: the minor is compared whatever the major
VersionUnsupported_MinorAlone(class) ==
  IF ~Truthy(class.version) THEN TRUE
  ELSE LET version == Split(class.version.v, ".")
       IN \/ Len(version) < 2
          \/ JsLt(Number(version[1]), Num(7))
          \/ JsLt(Number(version[2]), Num(6))

\* the version gate of the builder: true when the run must be refused
VersionUnsupported(class) ==
  IF ~Truthy(class.version) THEN TRUE
  ELSE LET version == Split(class.version.v, ".")
       IN \/ Len(version) < 2
          \/ JsLt(Number(version[1]), Num(7))
          \/ (Number(version[1]) = Num(7) /\ JsLt(Number(version[2]), Num(6)))

MsgVersion == <<"ESLint must be version 7.6 or higher.">>

---------------------------------------------------------------------------
(* Paths, errors and messages of the builder *)

\* path.join(a, b)
PathJoin(a, b) == a \o <<"/">> \o b

\* path.resolve(root, p): an absolute p stands, a relative one is put under root
PathResolve(root, p) ==
  IF p # <<>> /\ p[1] = "/" THEN p
  ELSE IF p # <<>> /\ p[1] = "./" THEN PathJoin(root, Tail(p))
  ELSE PathJoin(root, p)

\* an Error object
ErrorObj(msg) == [t |-> "Error", message |-> msg]

TypeInformationText ==
  "You must therefore provide a value for the \"parserOptions.project\" property for @typescript-eslint/parser"

\* err.message.includes(text)
Includes(message, text) == text \in Range(message)

MsgNothingToLint ==
  <<"Invalid lint configuration. Nothing to lint. Please check your lint target pattern(s).">>

\* the lines "- 'pattern'" of the ignored patterns
IgnoredPatternLines(checkResults) ==
  LET kept == SelectSeq(checkResults, LAMBDA pattern : Truthy(pattern))
  IN [i \in 1..Len(kept) |-> <<"- '">> \o kept[i].v \o <<"'">>]

MsgAllIgnored(ignoredPatterns) ==
  <<"All files matching the following patterns are ignored:", "\n">>
    \o Join(ignoredPatterns, <<"\n">>)
    \o <<"\n", "\n", "Please check your '.eslintignore' file.">>

\* a faulty variant of Catch: the failure is returned without the error text
Catch_WithoutError(err) == [success |-> Bool(FALSE)]

\* a faulty variant of Catch: the Error's message is returned without the prefix
Catch_NoPrefix(err) ==
  IF err.t = "Error"
    THEN [success |-> Bool(FALSE), error |-> Str(err.message)]
  ELSE [success |-> Bool(FALSE), error |-> Str(<<"Unknown error">>)]

\* the top-level catch of the builder
Catch(err) ==
  IF err.t = "Error"
    THEN [success |-> Bool(FALSE),
          error |-> Str(<<"Error when running ESLint: ">> \o err.message)]
  ELSE [success |-> Bool(FALSE), error |-> Str(<<"Unknown error">>)]

\* resolveESLintConfigPath(projectRoot), files being the paths that exist
resolveESLintConfigPath(projectRoot, files) ==
  IF PathJoin(projectRoot, <<".eslintrc", ".json">>) \in files
    THEN Str(PathJoin(projectRoot, <<".eslintrc", ".json">>))
  ELSE IF PathJoin(projectRoot, <<"eslint.config", ".js">>) \in files
    THEN Str(PathJoin(projectRoot, <<"eslint.config", ".js">>))
  ELSE IF PathJoin(projectRoot, <<"eslint.config", ".mjs">>) \in files
    THEN Str(PathJoin(projectRoot, <<"eslint.config", ".mjs">>))
  ELSE IF PathJoin(projectRoot, <<"eslint.config", ".cjs">>) \in files
    THEN Str(PathJoin(projectRoot, <<"eslint.config", ".cjs">>))
  ELSE null

---------------------------------------------------------------------------
(* Aggregation, filtering and the outcome *)

\* a per-file lint result as the linter reports it
LintResult(filePath, severities) ==
  [filePath |-> filePath,
   messages |-> [i \in 1..Len(severities) |-> [severity |-> severities[i]]],
   errorCount |-> Cardinality({i \in 1..Len(severities) : severities[i] = 2}),
   warningCount |-> Cardinality({i \in 1..Len(severities) : severities[i] = 1})]

\* totalErrors += result.errorCount, over the whole list
RECURSIVE TotalErrors(_)
TotalErrors(lintResults) ==
  IF lintResults = <<>> THEN 0
  ELSE Head(lintResults).errorCount + TotalErrors(Tail(lintResults))

\* totalWarnings += result.warningCount, over the whole list
RECURSIVE TotalWarnings(_)
TotalWarnings(lintResults) ==
  IF lintResults = <<>> THEN 0
  ELSE Head(lintResults).warningCount + TotalWarnings(Tail(lintResults))

\* a faulty variant of IsReported: a file with warnings is part of the report in
\* quiet mode too
IsReported_WarningsUnderQuiet(result, reportOnlyErrors) ==
  \/ result.errorCount # 0
  \/ result.warningCount # 0

\* the result is part of the report
IsReported(result, reportOnlyErrors) ==
  \/ result.errorCount # 0
  \/ (result.warningCount # 0 /\ ~Truthy(reportOnlyErrors))

\* result.messages = result.messages.filter(({ severity }) => severity === 2)
OnlyErrors(messages) == SelectSeq(messages, LAMBDA m : m.severity = 2)

\* the callback of lintResults.map: the result (narrowed in place) or null
MapResult(result, reportOnlyErrors) ==
  IF IsReported(result, reportOnlyErrors)
    THEN IF Truthy(reportOnlyErrors)
           THEN [result EXCEPT !.messages = OnlyErrors(@)]
           ELSE result
  ELSE null

\* .map(...).filter(Boolean)
FinalLintResults(lintResults, reportOnlyErrors) ==
  SelectSeq([i \in 1..Len(lintResults) |-> MapResult(lintResults[i], reportOnlyErrors)],
            LAMBDA r : r # null)

\* the results array after the map: reported results were narrowed in place
ResultsAfterMap(lintResults, reportOnlyErrors) ==
  [i \in 1..Len(lintResults) |->
     IF IsReported(lintResults[i], reportOnlyErrors)
       THEN MapResult(lintResults[i], reportOnlyErrors)
       ELSE lintResults[i]]

\* a faulty variant of Aggregate: the totals are taken over the filtered view
Aggregate_AfterFilter(lintResults, reportOnlyErrors) ==
  [totalErrors |-> TotalErrors(FinalLintResults(lintResults, reportOnlyErrors)),
   totalWarnings |-> TotalWarnings(FinalLintResults(lintResults, reportOnlyErrors)),
   finalLintResults |-> FinalLintResults(lintResults, reportOnlyErrors),
   lintResults |-> ResultsAfterMap(lintResults, reportOnlyErrors)]

\* one pass of lintResults.map(...).filter(Boolean): the totals of all the
\* results, the filtered view, and the results array as the pass leaves it
Aggregate(lintResults, reportOnlyErrors) ==
  [totalErrors |-> TotalErrors(lintResults),
   totalWarnings |-> TotalWarnings(lintResults),
   finalLintResults |-> FinalLintResults(lintResults, reportOnlyErrors),
   lintResults |-> ResultsAfterMap(lintResults, reportOnlyErrors)]

\* options.format && !options.silent
PrintInfo(options) ==
  IF Truthy(options.format) THEN JsNot(options.silent) ELSE options.format

\* a faulty variant of TooManyWarnings: reaching the limit already fails
TooManyWarnings_AtLimit(maxWarnings, totalWarnings) ==
  JsGe(maxWarnings, Num(0)) /\ JsGe(Num(totalWarnings), maxWarnings)

\* maxWarnings >= 0 && totalWarnings > maxWarnings
TooManyWarnings(maxWarnings, totalWarnings) ==
  JsGe(maxWarnings, Num(0)) /\ JsGt(Num(totalWarnings), maxWarnings)

\* options.force || (totalErrors === 0 && !tooManyWarnings)
Success(options, totalErrors, totalWarnings) ==
  JsOr(options.force,
       Bool(totalErrors = 0 /\ ~TooManyWarnings(options.maxWarnings, totalWarnings)))

\* the banner lines, in the order they are printed
Banners(options, totalErrors, totalWarnings) ==
  LET printInfo == Truthy(PrintInfo(options))
      reportOnlyErrors == Truthy(options.quiet)
      hasWarningsToPrint == totalWarnings > 0 /\ ~reportOnlyErrors
      hasErrorsToPrint == totalErrors > 0
  IN (IF hasWarningsToPrint /\ printInfo
        THEN <<[stream |-> "warn", text |-> "Lint warnings found in the listed files."]>>
        ELSE <<>>)
     \o (IF hasErrorsToPrint /\ printInfo
           THEN <<[stream |-> "error", text |-> "Lint errors found in the listed files."]>>
           ELSE <<>>)
     \o (IF (totalWarnings = 0 \/ reportOnlyErrors) /\ totalErrors = 0 /\ printInfo
           THEN <<[stream |-> "info", text |-> "All files pass linting."]>>
           ELSE <<>>)
     \o (IF TooManyWarnings(options.maxWarnings, totalWarnings) /\ printInfo
           THEN <<[stream |-> "error", text |-> "Found too many warnings"]>>
           ELSE <<>>)

---------------------------------------------------------------------------
(* Bounds and input sets *)

\* longest list of lint results the lint pass returns
MaxResults == 2

\* longest list of lint file patterns
MaxPatterns == 2

\* all sequences over S of length at most n
SeqsUpTo(S, n) == UNION {[1..k -> S] : k \in 0..n}

\* the builder context: workspace root and target project
Context == [workspaceRoot |-> <<"/ws">>, target |-> [project |-> <<"app">>]]

\* context.target?.project ?? '<???>'
ProjectName(context) ==
  IF context.target = undefined THEN <<"<???>">> ELSE context.target.project

PatternPool == {Str(<<"src/**/*.ts">>), Str(<<"src/**/*.html">>)}

\* the severities of the messages of one linted file (1 warning, 2 error)
SeverityLists == {<<>>, <<2>>, <<1, 1>>, <<1, 1, 1>>, <<1, 2, 1>>}

FileName(i) == <<"src/file", NatToChars(i)[1], ".ts">>

LintResultLists ==
  {[i \in DOMAIN sevs |-> LintResult(FileName(i), sevs[i])] :
     sevs \in SeqsUpTo(SeverityLists, MaxResults)}

\* the version components the installed linter may report
VersionParts ==
  {<<7>>, <<5, 16, 0>>, <<6, 8, 0>>, <<7, 5, 0>>, <<7, 6, 0>>, <<7, 10, 0>>, <<10, 2, 0>>}

Versions == {undefined} \cup {Str(VersionString(parts)) : parts \in VersionParts}

\* the eslint package as the run finds it
Modules ==
  {[installed |-> FALSE, loadESLint |-> FALSE, version |-> undefined,
    constructorThrows |-> FALSE]}
  \cup [installed : {TRUE}, loadESLint : BOOLEAN, version : Versions,
        constructorThrows : BOOLEAN]

\* values an external call may throw: an Error, or something that is not one
ThrownValues == {ErrorObj(<<"EACCES: permission denied">>), Str(<<"thrown string">>)}

\* sets of existing files the run may find
FileSets ==
  {{},
   {PathJoin(Context.workspaceRoot, <<"eslint.config", ".js">>)},
   {PathJoin(Context.workspaceRoot, <<"eslint.config", ".mts">>),
    PathJoin(<<"apps/app">>, <<".eslintrc", ".json">>)},
   {PathJoin(<<"apps/app">>, <<"eslint.config", ".cjs">>)}}

ProjectMetadatas == {undefined, [root |-> <<"apps/app">>]}

ConfigPaths ==
  {undefined, Str(<<>>)}
  \cup {Str(<<"./">> \o supportedFlatConfigNames[i]) : i \in 1..Len(supportedFlatConfigNames)}
  \cup {Str(<<"./", ".eslintrc", ".json">>),
        Str(<<"./", "eslint.config", ".js", "on">>),
        Str(<<"./", "my-", "eslint.config", ".js">>),
        Str(<<"eslint.config", ".js", "/", "base.js">>)}

DefaultOptions ==
  [lintFilePatterns |-> <<Str(<<"src/**/*.ts">>)>>,
   eslintConfig |-> undefined,
   format |-> Str(<<"stylish">>),
   silent |-> Bool(FALSE),
   quiet |-> Bool(FALSE),
   force |-> Bool(FALSE),
   maxWarnings |-> Num(-1),
   outputFile |-> undefined,
   fix |-> Bool(FALSE),
   cache |-> Bool(FALSE),
   cacheLocation |-> undefined,
   cacheStrategy |-> undefined,
   stats |-> undefined,
   useEslintrc |-> undefined,
   resolvePluginsRelativeTo |-> undefined,
   ignorePath |-> undefined,
   reportUnusedDisableDirectives |-> undefined,
   noConfigLookup |-> undefined,
   rulesdir |-> undefined,
   noEslintrc |-> undefined]

OptionalBool == {undefined, Bool(TRUE), Bool(FALSE)}

\* options bags for a direct call of resolveAndInstantiateESLint
ResolverBags ==
  {[DefaultOptions EXCEPT
      !.stats = st, !.useEslintrc = ue, !.resolvePluginsRelativeTo = rp,
      !.ignorePath = ip, !.reportUnusedDisableDirectives = ru,
      !.noConfigLookup = nl, !.rulesdir = rd, !.noEslintrc = ne,
      !.fix = fx, !.cacheLocation = cl] :
     st \in OptionalBool, ue \in OptionalBool,
     rp \in {undefined, Str(<<"./some-path">>)},
     ip \in {undefined, Str(<<"./.eslintignore">>)},
     ru \in {undefined, null, Str(<<"warn">>)},
     nl \in OptionalBool,
     rd \in {undefined, Arr(<<Str(<<"./some-rules">>), Str(<<"../some-more-rules">>)>>)},
     ne \in {undefined, Bool(TRUE)},
     fx \in {Bool(TRUE)},
     cl \in {Str(<<"/root/cache">>)}}

\* options bags for a run of the builder: each family varies one group of fields
ReportBags ==
  {[DefaultOptions EXCEPT !.force = f, !.quiet = q, !.maxWarnings = mw, !.silent = si] :
     f \in {Bool(TRUE), Bool(FALSE)}, q \in {Bool(TRUE), Bool(FALSE)},
     mw \in {undefined, Num(-1), Num(0), Num(1), Num(3)},
     si \in {Bool(TRUE), Bool(FALSE)}}

OutputBags ==
  {[DefaultOptions EXCEPT !.outputFile = o, !.format = fm, !.quiet = q] :
     o \in {Str(<<"reports", "/", "lint.txt">>)},
     fm \in {undefined, Str(<<"json">>)}, q \in {Bool(TRUE), Bool(FALSE)}}

PatternBags ==
  {[DefaultOptions EXCEPT !.lintFilePatterns = ps] : ps \in SeqsUpTo(PatternPool, MaxPatterns)}

ConfigBags ==
  {[DefaultOptions EXCEPT !.eslintConfig = ec, !.stats = st, !.cacheLocation = cl] :
     ec \in {undefined, Str(<<"./", "eslint.config", ".js">>), Str(<<"./", ".eslintrc", ".json">>)},
     st \in {undefined, Bool(TRUE)},
     cl \in {undefined, Str(<<".cache">>)}}
  \cup {[DefaultOptions EXCEPT !.ignorePath = Str(<<"./.eslintignore">>)],
        [DefaultOptions EXCEPT !.noConfigLookup = Bool(TRUE)]}

BuilderBags == ReportBags \cup OutputBags \cup PatternBags \cup ConfigBags

\* the eslint package as a direct call of the resolver finds it
DirectModules ==
  {m \in Modules : m.version \in {undefined, Str(VersionString(<<7, 6, 0>>))}
                   /\ (m.constructorThrows => m.loadESLint)}

---------------------------------------------------------------------------
(* State *)

VARIABLES
  options,           \* the options bag handed to the builder
  pc,                \* the step the run is at
  eslintConfigPath,  \* local of the builder
  useFlatConfig,     \* local of the builder
  ESLint,            \* the resolved linter class
  eslint,            \* the linter session
  lintResults,       \* local of the builder
  ignored,           \* the patterns the session's isPathIgnored reports ignored
  checks,            \* the isPathIgnored promises: Pending, or the settled value
  totalErrors,
  totalWarnings,
  finalLintResults,
  formattedResults,
  outcome,           \* the BuilderOutput the run returned
  calls,             \* the calls made to the outside, in order
  console,           \* the lines printed, in order
  direct,            \* a direct call of resolveAndInstantiateESLint
  lintError,         \* what the catch around the lint pass caught
  caught             \* what the top-level catch caught

locals ==
  <<eslintConfigPath, useFlatConfig, ESLint, eslint, lintResults, ignored, checks,
    totalErrors, totalWarnings, finalLintResults, formattedResults>>

vars == <<options, pc, locals, outcome, calls, console, direct, lintError, caught>>

\* the value of a catch binding whose catch block has not been entered
NotThrown == [t |-> "not thrown"]

InitLocals ==
  /\ eslintConfigPath = undefined
  /\ useFlatConfig = FALSE
  /\ ESLint = undefined
  /\ eslint = undefined
  /\ lintResults = <<>>
  /\ ignored = {}
  /\ checks = <<>>
  /\ totalErrors = 0
  /\ totalWarnings = 0
  /\ finalLintResults = <<>>
  /\ formattedResults = undefined
  /\ outcome = undefined
  /\ calls = <<>>
  /\ console = <<>>
  /\ lintError = NotThrown
  /\ caught = NotThrown

\* a run of the builder is about to start
Init ==
  /\ options \in BuilderBags
  /\ pc = "start"
  /\ InitLocals
  /\ direct = [state |-> "idle"]

\* resolveAndInstantiateESLint is about to be called on its own
InitResolve ==
  /\ options = DefaultOptions
  /\ pc = "idle"
  /\ InitLocals
  /\ direct \in [state : {"called"}, eslintConfigPath : ConfigPaths,
                 options : ResolverBags, useFlatConfig : BOOLEAN,
                 module : DirectModules]

---------------------------------------------------------------------------
(* The direct call *)

DirectResolve ==
  /\ direct.state = "called"
  /\ direct' = [state |-> "returned",
                eslintConfigPath |-> direct.eslintConfigPath,
                options |-> direct.options,
                useFlatConfig |-> direct.useFlatConfig,
                module |-> direct.module,
                result |-> resolveAndInstantiateESLint(direct.eslintConfigPath,
                             direct.options, direct.useFlatConfig, direct.module)]
  /\ UNCHANGED <<options, pc, locals, outcome, calls, console, lintError, caught>>

NextResolve == DirectResolve

SpecResolve == InitResolve /\ [][NextResolve]_vars

---------------------------------------------------------------------------
(* A run of the builder, step by step *)

\* a promise that has not settled
Pending == [t |-> "pending"]

CallWith(fn, arg) == [fn |-> fn, arg |-> arg]

\* an error reached the top-level catch: the run returns the failure outcome
Fail(err) ==
  /\ caught' = err
  /\ outcome' = Catch(err)
  /\ pc' = "done"

\* supportedFlatConfigNames.some((name) => existsSync(join(systemRoot, name)))
FlatConfigAtRoot(systemRoot, files) ==
  \E i \in 1..Len(supportedFlatConfigNames) :
    PathJoin(systemRoot, supportedFlatConfigNames[i]) \in files

\* a faulty variant of ProjectCacheLocation: an absent cacheLocation is left as
\* it is
ProjectCacheLocation_AbsentKept(cacheLocation, projectName) ==
  IF Truthy(cacheLocation) THEN Str(PathJoin(cacheLocation.v, projectName))
  ELSE cacheLocation

\* options.cacheLocation ? join(options.cacheLocation, projectName) : null
ProjectCacheLocation(cacheLocation, projectName) ==
  IF Truthy(cacheLocation) THEN Str(PathJoin(cacheLocation.v, projectName)) ELSE null

\* process.chdir up to the format detection
Start ==
  /\ pc = "start"
  /\ calls' = Append(calls, CallWith("process.chdir", Context.workspaceRoot))
  /\ \/ /\ \E err \in ThrownValues : Fail(err)
        /\ UNCHANGED <<options, locals, console>>
     \/ /\ console' = IF Truthy(PrintInfo(options))
                        THEN Append(console, [stream |-> "info", text |-> "Linting project"])
                        ELSE console
        /\ eslintConfigPath' =
             IF Truthy(options.eslintConfig)
               THEN Str(PathResolve(Context.workspaceRoot, options.eslintConfig.v))
               ELSE undefined
        /\ options' = [options EXCEPT
                         !.cacheLocation = ProjectCacheLocation(@, ProjectName(Context))]
        /\ \E files \in FileSets :
             useFlatConfig' = FlatConfigAtRoot(Context.workspaceRoot, files)
        /\ pc' = "resolve"
        /\ UNCHANGED <<ESLint, eslint, lintResults, ignored, checks, totalErrors,
                       totalWarnings, finalLintResults, formattedResults, outcome,
                       caught>>
  /\ UNCHANGED <<direct, lintError>>

\* await resolveAndInstantiateESLint(eslintConfigPath, options, useFlatConfig)
Resolve ==
  /\ pc = "resolve"
  /\ \E module \in Modules :
       LET r == resolveAndInstantiateESLint(eslintConfigPath, options, useFlatConfig, module)
       IN IF r.threw
            THEN Fail(ErrorObj(r.error)) /\ UNCHANGED <<ESLint, eslint>>
            ELSE /\ ESLint' = r.ESLint
                 /\ eslint' = r.eslint
                 /\ pc' = "versionGate"
                 /\ UNCHANGED <<outcome, caught>>
  /\ UNCHANGED <<options, eslintConfigPath, useFlatConfig, lintResults, ignored, checks,
                 totalErrors, totalWarnings, finalLintResults, formattedResults,
                 calls, console, direct, lintError>>

\* the version gate
VersionGate ==
  /\ pc = "versionGate"
  /\ IF VersionUnsupported(ESLint)
       THEN Fail(ErrorObj(MsgVersion))
       ELSE pc' = "lintFiles" /\ UNCHANGED <<outcome, caught>>
  /\ UNCHANGED <<options, locals, calls, console, direct, lintError>>

\* the remediation message of the missing parserOptions.project error
RemediationLine(path) ==
  [stream |-> "error", text |-> "parserOptions.project is not configured", path |-> path]

\* a faulty variant of IsTypeInformationError: every Error is taken for the
\* missing parserOptions.project error
IsTypeInformationError_AnyError(err) == err.t = "Error"

\* err instanceof Error && err.message.includes(<the parserOptions.project text>)
IsTypeInformationError(err) ==
  err.t = "Error" /\ Includes(err.message, TypeInformationText)

\* what the lint pass may throw
LintFilesThrows ==
  ThrownValues
  \cup {ErrorObj(<<"Error while loading rule '@typescript-eslint/await-thenable': ",
                   TypeInformationText, ".">>)}

\* await eslint.lintFiles(options.lintFilePatterns), and its catch
LintFiles ==
  /\ pc = "lintFiles"
  /\ calls' = Append(calls, CallWith("eslint.lintFiles", options.lintFilePatterns))
  /\ \/ \* the lint pass returns
        /\ \E results \in LintResultLists : lintResults' = results
        /\ pc' = IF lintResults' = <<>> THEN "emptyResults" ELSE "outputFixes"
        /\ UNCHANGED <<outcome, console, lintError, caught>>
     \/ \* the lint pass throws
        /\ \E err \in LintFilesThrows :
             /\ lintError' = err
             /\ IF IsTypeInformationError(err)
                  THEN \/ \* context.getProjectMetadata throws
                          /\ \E err2 \in ThrownValues : Fail(err2)
                          /\ UNCHANGED console
                       \/ \* the error is reported, not rethrown
                          /\ \E projectMetadata \in ProjectMetadatas, files \in FileSets :
                               LET eslintConfigPathForError ==
                                     IF projectMetadata # undefined
                                       THEN LET found == resolveESLintConfigPath(
                                                           projectMetadata.root, files)
                                            IN IF found = null THEN Str(<<>>) ELSE found
                                       ELSE Str(<<"for ">> \o ProjectName(Context))
                               IN console' = Append(console,
                                    RemediationLine(JsOr(eslintConfigPath,
                                                         eslintConfigPathForError)))
                          /\ outcome' = [success |-> Bool(FALSE)]
                          /\ pc' = "done"
                          /\ UNCHANGED caught
                  ELSE Fail(err) /\ UNCHANGED console
        /\ UNCHANGED lintResults
  /\ UNCHANGED <<options, eslintConfigPath, useFlatConfig, ESLint, eslint, ignored, checks,
                 totalErrors, totalWarnings, finalLintResults, formattedResults, direct>>

\* lintResults.length === 0: every isPathIgnored call is started, in pattern order
StartIgnoreChecks ==
  /\ pc = "emptyResults"
  /\ \E ig \in SUBSET PatternPool : ignored' = ig
  /\ checks' = [i \in 1..Len(options.lintFilePatterns) |-> Pending]
  /\ calls' = calls \o [i \in 1..Len(options.lintFilePatterns) |->
                          CallWith("eslint.isPathIgnored", options.lintFilePatterns[i])]
  /\ pc' = "ignoreChecks"
  /\ UNCHANGED <<options, eslintConfigPath, useFlatConfig, ESLint, eslint, lintResults,
                 totalErrors, totalWarnings, finalLintResults, formattedResults,
                 outcome, console, direct, lintError, caught>>

\* (await eslint.isPathIgnored(pattern)) ? pattern : null, for the i-th pattern
IgnoreCheckSettles(i) ==
  /\ pc = "ignoreChecks"
  /\ checks[i] = Pending
  /\ checks' = [checks EXCEPT ![i] =
                  IF options.lintFilePatterns[i] \in ignored
                    THEN options.lintFilePatterns[i] ELSE null]
  /\ UNCHANGED <<options, pc, eslintConfigPath, useFlatConfig, ESLint, eslint, lintResults,
                 ignored, totalErrors, totalWarnings, finalLintResults, formattedResults,
                 outcome, calls, console, direct, lintError, caught>>

\* a faulty variant of EmptyResultError: the ignored-files error only when every
\* pattern is ignored
EmptyResultError_AllIgnoredOnly(checkResults) ==
  LET ignoredPatterns == IgnoredPatternLines(checkResults)
  IN IF Len(ignoredPatterns) # 0 /\ Len(ignoredPatterns) = Len(checkResults)
       THEN ErrorObj(MsgAllIgnored(ignoredPatterns))
     ELSE ErrorObj(MsgNothingToLint)

\* the error of an empty lint result, by what the ignore checks returned
EmptyResultError(checkResults) ==
  LET ignoredPatterns == IgnoredPatternLines(checkResults)
  IN IF Len(ignoredPatterns) # 0 THEN ErrorObj(MsgAllIgnored(ignoredPatterns))
     ELSE ErrorObj(MsgNothingToLint)

\* a faulty variant of ThrowEmptyResult: the error is thrown as soon as one
\* check has settled, from the checks settled so far
ThrowEmptyResult_FirstSettled ==
  /\ pc = "ignoreChecks"
  /\ \E i \in 1..Len(checks) : checks[i] # Pending
  /\ Fail(EmptyResultError(SelectSeq(checks, LAMBDA c : c # Pending)))
  /\ UNCHANGED <<options, locals, calls, console, direct, lintError>>

\* Promise.all has resolved: the run throws one of the two empty-result errors
ThrowEmptyResult ==
  /\ pc = "ignoreChecks"
  /\ \A i \in 1..Len(checks) : checks[i] # Pending
  /\ Fail(EmptyResultError(checks))
  /\ UNCHANGED <<options, locals, calls, console, direct, lintError>>

\* a faulty variant of OutputFixes: the fixes are output for the filtered,
\* narrowed view
OutputFixes_OfReportView ==
  /\ pc = "outputFixes"
  /\ calls' = Append(calls, CallWith("ESLint.outputFixes",
                                     FinalLintResults(lintResults, options.quiet)))
  /\ \/ \E err \in ThrownValues : Fail(err)
     \/ pc' = "loadFormatter" /\ UNCHANGED <<outcome, caught>>
  /\ UNCHANGED <<options, locals, console, direct, lintError>>

\* await ESLint.outputFixes(lintResults)
OutputFixes ==
  /\ pc = "outputFixes"
  /\ calls' = Append(calls, CallWith("ESLint.outputFixes", lintResults))
  /\ \/ \E err \in ThrownValues : Fail(err)
     \/ pc' = "loadFormatter" /\ UNCHANGED <<outcome, caught>>
  /\ UNCHANGED <<options, locals, console, direct, lintError>>

\* await eslint.loadFormatter(options.format)
LoadFormatter ==
  /\ pc = "loadFormatter"
  /\ calls' = Append(calls, CallWith("eslint.loadFormatter", options.format))
  /\ \/ \E err \in ThrownValues : Fail(err)
     \/ pc' = "format" /\ UNCHANGED <<outcome, caught>>
  /\ UNCHANGED <<options, locals, console, direct, lintError>>

\* the totals, the filtered view, and await formatter.format(finalLintResults)
Format ==
  /\ pc = "format"
  /\ LET pass == Aggregate(lintResults, options.quiet)
     IN /\ totalErrors' = pass.totalErrors
        /\ totalWarnings' = pass.totalWarnings
        /\ finalLintResults' = pass.finalLintResults
        /\ lintResults' = pass.lintResults
  /\ calls' = Append(calls, CallWith("formatter.format", finalLintResults'))
  /\ \/ /\ \E err \in ThrownValues : Fail(err)
        /\ UNCHANGED formattedResults
     \/ /\ formattedResults' = Str(<<"formatted results">>)
        /\ pc' = "report"
        /\ UNCHANGED <<outcome, caught>>
  /\ UNCHANGED <<options, eslintConfigPath, useFlatConfig, ESLint, eslint, ignored, checks,
                 console, direct, lintError>>

\* the report is written or printed, the banners, and the returned outcome
Report ==
  /\ pc = "report"
  /\ IF Truthy(options.outputFile)
       THEN LET pathToOutputFile == PathJoin(Context.workspaceRoot, options.outputFile.v)
            IN \/ \* mkdirSync throws
                  /\ calls' = Append(calls, CallWith("mkdirSync", pathToOutputFile))
                  /\ \E err \in ThrownValues : Fail(err)
                  /\ UNCHANGED console
               \/ /\ calls' = calls \o <<CallWith("mkdirSync", pathToOutputFile),
                                         CallWith("writeFileSync", pathToOutputFile)>>
                  /\ \/ \* writeFileSync throws
                        /\ \E err \in ThrownValues : Fail(err)
                        /\ UNCHANGED console
                     \/ /\ console' = console \o Banners(options, totalErrors, totalWarnings)
                        /\ outcome' = [success |-> Success(options, totalErrors, totalWarnings)]
                        /\ pc' = "done"
                        /\ UNCHANGED caught
       ELSE /\ console' = Append(console, [stream |-> "info", text |-> "formatted results"])
                            \o Banners(options, totalErrors, totalWarnings)
            /\ outcome' = [success |-> Success(options, totalErrors, totalWarnings)]
            /\ pc' = "done"
            /\ UNCHANGED <<calls, caught>>
  /\ UNCHANGED <<options, locals, direct, lintError>>

Next ==
  \/ Start
  \/ Resolve
  \/ VersionGate
  \/ LintFiles
  \/ StartIgnoreChecks
  \/ \E i \in 1..MaxPatterns : i <= Len(checks) /\ IgnoreCheckSettles(i)
  \/ ThrowEmptyResult
  \/ OutputFixes
  \/ LoadFormatter
  \/ Format
  \/ Report

Spec == Init /\ [][Next]_vars

---------------------------------------------------------------------------
(* Properties of a run of the builder (specification Spec) *)

\* the sum of errorCount over a list of per-file results
C_ErrorSum(results) ==
  LET S[i \in 0..Len(results)] == IF i = 0 THEN 0 ELSE S[i - 1] + results[i].errorCount
  IN S[Len(results)]

\* the sum of warningCount over a list of per-file results
C_WarningSum(results) ==
  LET S[i \in 0..Len(results)] == IF i = 0 THEN 0 ELSE S[i - 1] + results[i].warningCount
  IN S[Len(results)]

\* the run returned from its last statement: the lint pass gave results, nothing raised
C_ReturnedNormally ==
  pc = "done" /\ "error" \notin DOMAIN outcome /\ lintResults # <<>>

\* the warning threshold is configured (a number >= 0) and the warnings exceed it
C_ThresholdExceeded(maxWarnings, warnings) ==
  maxWarnings.t = "number" /\ maxWarnings.v >= 0 /\ warnings > maxWarnings.v

\* C1: when the lint pass returned at least one result and nothing raised, success
\* is true iff force is set or (the errors summed over all results are 0 and not
\* (maxWarnings >= 0 and the warnings exceed maxWarnings)); an absent or negative
\* maxWarnings never makes warnings alone fail the run.
C1_SuccessRule ==
  C_ReturnedNormally =>
    LET errors == C_ErrorSum(lintResults)
        warnings == C_WarningSum(lintResults)
        forced == options.force = Bool(TRUE)
        exceeded == C_ThresholdExceeded(options.maxWarnings, warnings)
    IN /\ outcome.success = Bool(forced \/ (errors = 0 /\ ~exceeded))
       /\ (errors = 0 /\ (options.maxWarnings = undefined \/ options.maxWarnings.v < 0)
             => outcome.success = Bool(TRUE))

\* C1 witness: 0 errors, 5 warnings, maxWarnings = 3, no force: the run fails
C1_FiveWarningsOverThree ==
  /\ C_ReturnedNormally
  /\ C_ErrorSum(lintResults) = 0
  /\ C_WarningSum(lintResults) = 5
  /\ options.maxWarnings = Num(3)
  /\ options.force = Bool(FALSE)
  /\ outcome.success = Bool(FALSE)

\* the aggregation pass of the run has happened
C_Aggregated == \E i \in 1..Len(calls) : calls[i].fn = "formatter.format"

\* the lint results as the lint pass returned them, before the aggregation pass
C_ReturnedResults ==
  calls[CHOOSE i \in 1..Len(calls) : calls[i].fn = "ESLint.outputFixes"].arg

\* C2: the totals used for the success determination are the sums of errorCount and
\* warningCount over all per-file results, before and after the filtering pass, and
\* they and the success value are the same with quiet mode on and off.
C2_TotalsAreUnfilteredSums ==
  C_Aggregated =>
    LET returned == C_ReturnedResults
        quietOn == Aggregate(returned, Bool(TRUE))
        quietOff == Aggregate(returned, Bool(FALSE))
    IN /\ totalErrors = C_ErrorSum(returned)
       /\ totalWarnings = C_WarningSum(returned)
       /\ totalErrors = C_ErrorSum(lintResults)
       /\ totalWarnings = C_WarningSum(lintResults)
       /\ quietOn.totalErrors = quietOff.totalErrors
       /\ quietOn.totalWarnings = quietOff.totalWarnings
       /\ Success(options, quietOn.totalErrors, quietOn.totalWarnings)
            = Success(options, quietOff.totalErrors, quietOff.totalWarnings)
       /\ (C_ReturnedNormally =>
             outcome.success = Success(options, C_ErrorSum(returned), C_WarningSum(returned)))

\* C2 witness: quiet mode dropped a file with warnings from the view, and the
\* warnings of that file are still in the total
C2_QuietDropsWarningsFromView ==
  /\ C_ReturnedNormally
  /\ Truthy(options.quiet)
  /\ Len(finalLintResults) < Len(lintResults)
  /\ totalWarnings > C_WarningSum(finalLintResults)

---------------------------------------------------------------------------
(* Properties of resolveAndInstantiateESLint (specification SpecResolve) *)

C_Returned == direct.state = "returned"

\* the call returned without throwing: a linter session was constructed
C_Resolved == C_Returned /\ ~direct.result.threw

\* the call threw, and no linter session exists
C_FailedWith(msg) ==
  /\ direct.result.threw
  /\ direct.result.error = msg
  /\ "eslint" \notin DOMAIN direct.result

C_LegacyOnlyOptions ==
  <<"useEslintrc", "resolvePluginsRelativeTo", "ignorePath", "reportUnusedDisableDirectives">>

\* the positions in C_LegacyOnlyOptions of the options the bag sets
C_LegacyOnlySet(o) ==
  {i \in 1..4 :
     \/ i = 1 /\ o.useEslintrc # undefined
     \/ i = 2 /\ o.resolvePluginsRelativeTo # undefined
     \/ i = 3 /\ o.ignorePath # undefined
     \/ i = 4 /\ o.reportUnusedDisableDirectives \notin {undefined, null}}

C_FlatExtensions == {".js", ".mjs", ".cjs", ".ts", ".mts", ".cts"}

\* the path ends with eslint.config and one of the six extensions
C_HasFlatConfigName(path) ==
  /\ Len(path) >= 2
  /\ path[Len(path) - 1] = "eslint.config"
  /\ path[Len(path)] \in C_FlatExtensions

\* an explicit config file path was supplied
C_ExplicitPath(path) == path.t = "string" /\ path.v # <<>>

\* the error is the configuration-format error, listing the six allowed names
C_IsConfigNameError(result) ==
  /\ result.threw
  /\ result.error[1] =
       "When using the new Flat Config with ESLint, all configs must be named "
  /\ \A ext \in C_FlatExtensions :
       \E i \in 1..(Len(result.error) - 1) :
         result.error[i] = "eslint.config" /\ result.error[i + 1] = ext
  /\ "eslint" \notin DOMAIN result

\* C3 as stated: under flat config, whenever one of the four legacy-only options
\* is set, resolution fails with an error naming an option that is set (here
\* even granted that the linter package is installed).
C3_AlwaysNamesTheOption ==
  (/\ C_Returned
   /\ direct.useFlatConfig
   /\ direct.module.installed
   /\ C_LegacyOnlySet(direct.options) # {}) =>
    /\ direct.result.threw
    /\ \E i \in C_LegacyOnlySet(direct.options) :
         C_LegacyOnlyOptions[i] \in Range(direct.result.error)

\* C3 as amended: under flat config, whenever one of the four legacy-only options
\* is set, resolution fails and no session is constructed; the error is the
\* configuration-format error when the explicit config path has no recognised
\* name, the unable-to-find-ESLint error when the linter class cannot be resolved,
\* and otherwise names the first set option in the order useEslintrc,
\* resolvePluginsRelativeTo, ignorePath, reportUnusedDisableDirectives, and none
\* of the other three.
C3_FailsNamingFirstSetOption ==
  (C_Returned /\ direct.useFlatConfig /\ C_LegacyOnlySet(direct.options) # {}) =>
    LET set == C_LegacyOnlySet(direct.options)
        first == CHOOSE i \in set : \A j \in set : i <= j
        path == direct.eslintConfigPath
    IN /\ direct.result.threw
       /\ "eslint" \notin DOMAIN direct.result
       /\ IF C_ExplicitPath(path) /\ ~C_HasFlatConfigName(path.v)
            THEN C_IsConfigNameError(direct.result)
          ELSE IF ~direct.module.installed
            THEN direct.result.error = <<"Unable to find ESLint. Ensure ESLint is installed.">>
          ELSE \A i \in 1..4 :
                 (C_LegacyOnlyOptions[i] \in Range(direct.result.error)) <=> (i = first)

\* C3 witness: two legacy-only options set under flat config, the first is named
C3_TwoLegacyOptionsSet ==
  /\ C_Returned
  /\ direct.useFlatConfig
  /\ direct.module.installed
  /\ direct.eslintConfigPath = Str(<<"./", "eslint.config", ".ts">>)
  /\ C_LegacyOnlySet(direct.options) = {2, 3}
  /\ direct.result.threw
  /\ "resolvePluginsRelativeTo" \in Range(direct.result.error)

\* C4: under flat config with an explicit config path, resolution succeeds only if
\* the path ends with one of the six recognised names, any other path fails with
\* the configuration-format error listing the six names, and without an explicit
\* path that error never occurs.
C4_FlatConfigNameCheck ==
  (C_Returned /\ direct.useFlatConfig) =>
    LET path == direct.eslintConfigPath
    IN /\ (C_ExplicitPath(path) /\ ~direct.result.threw => C_HasFlatConfigName(path.v))
       /\ (C_ExplicitPath(path) /\ ~C_HasFlatConfigName(path.v)
             => C_IsConfigNameError(direct.result))
       /\ (~C_ExplicitPath(path) => ~C_IsConfigNameError(direct.result))

\* C4 witness: eslint.config.json is refused under flat config
C4_JsonConfigRefused ==
  /\ C_Returned
  /\ direct.useFlatConfig
  /\ direct.eslintConfigPath = Str(<<"./", "eslint.config", ".js", "on">>)
  /\ C_IsConfigNameError(direct.result)

\* C5: stats requested under the legacy format always fails with the --stats
\* error and constructs no session; under the flat format the resolved options
\* carry stats as the boolean telling whether stats was requested.
C5_StatsNeedsFlatConfig ==
  C_Returned =>
    /\ (direct.options.stats = Bool(TRUE) /\ ~direct.useFlatConfig
          => C_FailedWith(<<"The --stats option requires ESLint Flat Config">>))
    /\ (direct.useFlatConfig /\ ~direct.result.threw
          => direct.result.eslint.options.stats = Bool(direct.options.stats = Bool(TRUE)))

\* C5 witness: stats with a flat config file name, but the legacy format
C5_StatsUnderLegacy ==
  /\ C_Returned
  /\ ~direct.useFlatConfig
  /\ direct.options.stats = Bool(TRUE)
  /\ direct.eslintConfigPath = Str(<<"./", "eslint.config", ".js">>)
  /\ direct.options.noConfigLookup = Bool(TRUE)
  /\ C_FailedWith(<<"The --stats option requires ESLint Flat Config">>)

\* C6: the options resolved under the legacy format have no stats field, and have
\* rulePaths (rulesdir, or the empty list), resolvePluginsRelativeTo and ignorePath
\* (the given value or undefined), useEslintrc = !noEslintrc, overrideConfigFile =
\* the config path as given, and errorOnUnmatchedPattern = false.
C6_LegacyOptionsShape ==
  (C_Resolved /\ ~direct.useFlatConfig) =>
    LET given == direct.options
        resolved == direct.result.eslint.options
    IN /\ "stats" \notin DOMAIN resolved
       /\ {"rulePaths", "resolvePluginsRelativeTo", "ignorePath", "useEslintrc",
           "overrideConfigFile", "errorOnUnmatchedPattern"} \subseteq DOMAIN resolved
       /\ resolved.rulePaths =
            (IF given.rulesdir = undefined THEN Arr(<<>>) ELSE given.rulesdir)
       /\ resolved.resolvePluginsRelativeTo = given.resolvePluginsRelativeTo
       /\ resolved.ignorePath = given.ignorePath
       /\ resolved.useEslintrc = Bool(given.noEslintrc # Bool(TRUE))
       /\ resolved.overrideConfigFile = direct.eslintConfigPath
       /\ resolved.errorOnUnmatchedPattern = Bool(FALSE)

\* C6 witness: a legacy resolution with rulesdir, noEslintrc and a config path
C6_LegacyWithRulesdir ==
  /\ C_Resolved
  /\ ~direct.useFlatConfig
  /\ direct.options.rulesdir # undefined
  /\ direct.options.noEslintrc = Bool(TRUE)
  /\ direct.options.ignorePath # undefined
  /\ direct.eslintConfigPath = Str(<<"./", ".eslintrc", ".json">>)
  /\ direct.result.eslint.options.useEslintrc = Bool(FALSE)

\* C7: under the flat format, overrideConfigFile is the config path as given when
\* noConfigLookup is absent; when it is present, the path if one was given, else
\* true for noConfigLookup = true and undefined for noConfigLookup = false. It is a
\* string, true or undefined, never false.
C7_FlatOverrideConfigFile ==
  (C_Resolved /\ direct.useFlatConfig) =>
    LET path == direct.eslintConfigPath
        lookup == direct.options.noConfigLookup
        resolved == direct.result.eslint.options.overrideConfigFile
    IN /\ (lookup = undefined => resolved = path)
       /\ (lookup # undefined /\ path.t = "string" => resolved = path)
       /\ (lookup = Bool(TRUE) /\ path.t # "string" => resolved = Bool(TRUE))
       /\ (lookup = Bool(FALSE) /\ path.t # "string" => resolved = undefined)
       /\ resolved # Bool(FALSE)
       /\ (resolved.t = "string" \/ resolved = Bool(TRUE) \/ resolved = undefined)

\* C7 witness: noConfigLookup = false and no path collapse to undefined
C7_LookupFalseCollapses ==
  /\ C_Resolved
  /\ direct.useFlatConfig
  /\ direct.options.noConfigLookup = Bool(FALSE)
  /\ direct.eslintConfigPath = undefined
  /\ direct.result.eslint.options.overrideConfigFile = undefined

\* C8 as stated: flat format, noConfigLookup = true, no explicit path: the
\* resolved overrideConfigFile is undefined, and is not false.
C8_OverrideIsUndefined ==
  (/\ C_Resolved
   /\ direct.useFlatConfig
   /\ direct.options.noConfigLookup = Bool(TRUE)
   /\ direct.eslintConfigPath = undefined) =>
    /\ direct.result.eslint.options.overrideConfigFile = undefined
    /\ direct.result.eslint.options.overrideConfigFile # Bool(FALSE)

\* C8 as amended: flat format, noConfigLookup = true, no explicit path: the
\* resolved overrideConfigFile is the boolean true (do not look a config file up);
\* it is neither undefined nor false.
C8_OverrideIsTrue ==
  (/\ C_Resolved
   /\ direct.useFlatConfig
   /\ direct.options.noConfigLookup = Bool(TRUE)
   /\ direct.eslintConfigPath = undefined) =>
    direct.result.eslint.options.overrideConfigFile = Bool(TRUE)

\* C8 witness: a flat resolution with noConfigLookup = true and no path
C8_NoLookupNoPath ==
  /\ C_Resolved
  /\ direct.useFlatConfig
  /\ direct.options.noConfigLookup = Bool(TRUE)
  /\ direct.eslintConfigPath = undefined
  /\ "overrideConfigFile" \in DOMAIN direct.result.eslint.options

---------------------------------------------------------------------------
(* Properties of the empty-result step and of the version gate (Spec) *)

\* the step that throws the empty-result error
C_EmptyResultStep == pc = "ignoreChecks" /\ pc' = "done"

\* the supplied patterns the session reports ignored, in the order supplied
C_IgnoredInOrder == SelectSeq(options.lintFilePatterns, LAMBDA p : p \in ignored)

\* the lines of the error message of an outcome
C_ErrorLines(out) == Split(out.error.v, "\n")

\* the outcome is the all-files-ignored failure listing exactly these patterns,
\* one per line, each prefixed by "- "
C_IsAllIgnoredFailure(out, patterns) ==
  /\ out.success = Bool(FALSE)
  /\ "error" \in DOMAIN out
  /\ LET lines == C_ErrorLines(out)
     IN /\ Len(lines) = Len(patterns) + 3
        /\ lines[1] = <<"Error when running ESLint: ",
                        "All files matching the following patterns are ignored:">>
        /\ \A i \in 1..Len(patterns) : lines[i + 1] = <<"- '">> \o patterns[i].v \o <<"'">>
        /\ lines[Len(lines)] = <<"Please check your '.eslintignore' file.">>

\* the outcome is the nothing-to-lint failure
C_IsNothingToLintFailure(out) ==
  /\ out.success = Bool(FALSE)
  /\ "error" \in DOMAIN out
  /\ out.error = Str(<<"Error when running ESLint: ",
       "Invalid lint configuration. Nothing to lint. Please check your lint target pattern(s).">>)

\* C9 as stated: on an empty lint result the run fails with the all-files-ignored
\* error if every supplied pattern is ignored, and with the nothing-to-lint error
\* if at least one supplied pattern is not ignored (patterns being supplied).
C9_AllIgnoredOrNothingToLint ==
  [][C_EmptyResultStep /\ options.lintFilePatterns # <<>> =>
       IF \A i \in 1..Len(options.lintFilePatterns) : options.lintFilePatterns[i] \in ignored
         THEN C_IsAllIgnoredFailure(outcome', C_IgnoredInOrder)
         ELSE C_IsNothingToLintFailure(outcome')]_vars

\* C9 as amended: on an empty lint result the run fails; if at least one supplied
\* pattern is ignored the failure is the all-files-ignored error, whose message
\* lists each ignored pattern, in the order supplied, on its own line prefixed by
\* "- "; if no supplied pattern is ignored (also when no pattern was supplied) it
\* is the nothing-to-lint error.
C9_SomeIgnoredOrNothingToLint ==
  [][C_EmptyResultStep =>
       IF \E i \in 1..Len(options.lintFilePatterns) : options.lintFilePatterns[i] \in ignored
         THEN C_IsAllIgnoredFailure(outcome', C_IgnoredInOrder)
         ELSE C_IsNothingToLintFailure(outcome')]_vars

\* C9 witness: two patterns, only the second ignored, and the run failed with the
\* all-files-ignored error
C9_OneOfTwoIgnored ==
  /\ pc = "done"
  /\ Len(checks) = 2
  /\ checks[1] = null
  /\ checks[2] = options.lintFilePatterns[2]
  /\ C_IsAllIgnoredFailure(outcome, <<options.lintFilePatterns[2]>>)

\* the version components are missing a minor, or are below 7.6
C_BelowSevenSix(parts) ==
  \/ Len(parts) < 2
  \/ parts[1] < 7
  \/ (parts[1] = 7 /\ parts[2] < 6)

\* the resolved linter class reports no version, or one the gate must refuse
C_VersionRefused ==
  \/ ESLint.version = undefined
  \/ \E parts \in VersionParts :
       ESLint.version = Str(VersionString(parts)) /\ C_BelowSevenSix(parts)

C_IsVersionFailure(out) ==
  /\ out.success = Bool(FALSE)
  /\ "error" \in DOMAIN out
  /\ out.error = Str(<<"Error when running ESLint: ", "ESLint must be version 7.6 or higher.">>)

\* C10: when the resolved linter class reports no version, fewer than two
\* components or a version below 7.6, the run ends with the version failure and
\* the lint pass, the ignore checks, the fix output, the formatter and the report
\* write are never called; for 7.6 and every higher version the gate does not fail.
C10_VersionGate ==
  ESLint # undefined =>
    IF C_VersionRefused
      THEN \/ pc = "versionGate"
           \/ /\ pc = "done"
              /\ C_IsVersionFailure(outcome)
              /\ \A i \in 1..Len(calls) : calls[i].fn = "process.chdir"
      ELSE ~(pc = "done" /\ C_IsVersionFailure(outcome))

\* C10 witness: the linter reports 7.5.0 and the run has ended with the failure
C10_SevenFiveRefused ==
  /\ ESLint # undefined
  /\ ESLint.version = Str(<<"7", ".", "5", ".", "0">>)
  /\ pc = "done"
  /\ C_IsVersionFailure(outcome)

---------------------------------------------------------------------------
(* The top-level catch *)

\* a step of the run raised and the top-level catch was entered
C_Raised == caught # NotThrown

\* the message text the claim gives a thrown value
C_MessageText(value) ==
  IF value.t = "Error" THEN value.message ELSE <<"Unknown error">>

\* C11 (as stated): whenever a step raises, the run returns success = false and
\* error = 'Error when running ESLint: ' followed by the error's message text,
\* with 'Unknown error' as that text when the thrown value is not an Error.
C11_AlwaysPrefixed ==
  C_Raised =>
    /\ pc = "done"
    /\ outcome = [success |-> Bool(FALSE),
                  error |-> Str(<<"Error when running ESLint: ">>
                                \o C_MessageText(caught))]

\* C11 (amended): no error escapes a run: whenever a step raises, whatever the
\* options bag, the run has ended with success = false and an error string,
\* which is 'Error when running ESLint: ' followed by the message when the
\* thrown value is an Error, and exactly 'Unknown error', without the prefix,
\* when it is not.
C11_FailureFromCatch ==
  C_Raised =>
    /\ pc = "done"
    /\ DOMAIN outcome = {"success", "error"}
    /\ outcome.success = Bool(FALSE)
    /\ outcome.error =
         IF caught.t = "Error"
           THEN Str(<<"Error when running ESLint: ">> \o caught.message)
         ELSE Str(<<"Unknown error">>)

\* C11 witness: force is set, the fix output raised an Error, and the run
\* ended with the prefixed failure
C11_FixOutputRaisedUnderForce ==
  /\ pc = "done"
  /\ options.force = Bool(TRUE)
  /\ calls[Len(calls)].fn = "ESLint.outputFixes"
  /\ caught = ErrorObj(<<"EACCES: permission denied">>)
  /\ outcome = [success |-> Bool(FALSE),
                error |-> Str(<<"Error when running ESLint: ",
                                "EACCES: permission denied">>)]

---------------------------------------------------------------------------
(* The shape of the outcome *)

C_IsBoolean(value) == value \in {Bool(TRUE), Bool(FALSE)}

C_HasErrorString(out) == "error" \in DOMAIN out /\ out.error.t = "string"

\* C12 (as stated): every outcome the run returns has a boolean success field,
\* and whenever success is false the outcome carries an error message string.
C12_FailureHasError ==
  pc = "done" =>
    /\ C_IsBoolean(outcome.success)
    /\ outcome.success = Bool(FALSE) => C_HasErrorString(outcome)

\* C12 (amended): every outcome the run returns has a boolean success field;
\* it carries an error message string exactly when the run ended in the
\* top-level catch, and then success is false; the failures returned by the
\* type-information catch and by the last statement (lint errors, too many
\* warnings) have success = false and no error field.
C12_ErrorOnlyFromCatch ==
  pc = "done" =>
    /\ C_IsBoolean(outcome.success)
    /\ IF C_Raised
         THEN C_HasErrorString(outcome) /\ outcome.success = Bool(FALSE)
       ELSE DOMAIN outcome = {"success"}

\* C12 witness: the run returned from its last statement with lint errors:
\* success is false and the outcome has no error field
C12_LintErrorsWithoutErrorText ==
  /\ C_ReturnedNormally
  /\ totalErrors > 0
  /\ outcome = [success |-> Bool(FALSE)]

---------------------------------------------------------------------------
(* The catch around the lint pass *)

\* the lint pass raised
C_LintPassRaised == lintError # NotThrown

\* an Error whose message contains the missing parserOptions.project text
C_MissingProjectError(value) ==
  /\ value.t = "Error"
  /\ \E i \in 1..Len(value.message) : value.message[i] = TypeInformationText

\* the remediation message was printed
C_RemediationEmitted ==
  \E i \in 1..Len(console) :
    /\ console[i].stream = "error"
    /\ console[i].text = "parserOptions.project is not configured"

\* the lint pass is the last call the run made
C_NothingAfterLintPass == calls # <<>> /\ calls[Len(calls)].fn = "eslint.lintFiles"

\* C13 (as stated): when the lint pass raises the missing parserOptions.project
\* error the run emits the remediation message and returns success = false
\* without rethrowing and without any later step, force or not; any other
\* error of the lint pass reaches the top-level catch unchanged.
C13_AlwaysRemediation ==
  C_LintPassRaised =>
    IF C_MissingProjectError(lintError)
      THEN /\ pc = "done"
           /\ C_RemediationEmitted
           /\ outcome = [success |-> Bool(FALSE)]
           /\ ~C_Raised
           /\ C_NothingAfterLintPass
    ELSE caught = lintError

\* C13 (amended): when the lint pass raises the missing parserOptions.project
\* error the run ends with success = false and no later step, force or not:
\* either the remediation message is emitted and the failure is returned
\* without an error text and without rethrowing, or the project metadata lookup
\* of the catch block raised, in which case no remediation message is emitted
\* and that other error reaches the top-level catch; any other error of the
\* lint pass reaches the top-level catch unchanged, with no remediation message.
C13_RemediationUnlessLookupRaises ==
  C_LintPassRaised =>
    /\ pc = "done"
    /\ C_NothingAfterLintPass
    /\ outcome.success = Bool(FALSE)
    /\ IF C_MissingProjectError(lintError)
         THEN \/ /\ C_RemediationEmitted
                 /\ outcome = [success |-> Bool(FALSE)]
                 /\ ~C_Raised
              \/ /\ ~C_RemediationEmitted
                 /\ C_Raised
                 /\ ~C_MissingProjectError(caught)
       ELSE caught = lintError /\ ~C_RemediationEmitted

\* C13 witness: force is set, the lint pass raised the missing
\* parserOptions.project error, and the run returned the failure after the
\* remediation message
C13_RemediationUnderForce ==
  /\ options.force = Bool(TRUE)
  /\ C_LintPassRaised
  /\ C_MissingProjectError(lintError)
  /\ C_RemediationEmitted
  /\ pc = "done"
  /\ outcome = [success |-> Bool(FALSE)]

---------------------------------------------------------------------------
(* The report view *)

\* the argument of the formatter call
C_FormatterView ==
  calls[CHOOSE i \in 1..Len(calls) : calls[i].fn = "formatter.format"].arg

C_QuietOn == options.quiet = Bool(TRUE)

\* the k-th smallest member of a set of indices
C_Nth(S, k) == CHOOSE i \in S : Cardinality({j \in S : j <= i}) = k

\* the members of seq at the indices in S, in the order of seq
C_Subsequence(seq, S) == [k \in 1..Cardinality(S) |-> seq[C_Nth(S, k)]]

\* the indices of the results the claim puts in the report
C_IncludedIndices(results) ==
  {i \in 1..Len(results) :
     \/ results[i].errorCount >= 1
     \/ results[i].warningCount >= 1 /\ ~C_QuietOn}

\* the indices of the severity-2 messages of a message list
C_ErrorIndices(messages) == {i \in 1..Len(messages) : messages[i].severity = 2}

\* C14: the view passed to the formatter holds, in the original order, exactly
\* the results with at least one error, or with at least one warning while
\* quiet mode is off; under quiet mode a file with warnings only is left out and
\* every included result keeps its severity-2 messages only; with quiet mode off
\* the message lists are passed unchanged.
C14_ReportView ==
  C_Aggregated =>
    LET returned == C_ReturnedResults
        view == C_FormatterView
        included == C_IncludedIndices(returned)
    IN /\ Len(view) = Cardinality(included)
       /\ \A k \in 1..Len(view) :
            LET result == returned[C_Nth(included, k)]
            IN /\ view[k].filePath = result.filePath
               /\ view[k].errorCount = result.errorCount
               /\ view[k].warningCount = result.warningCount
               /\ view[k].messages =
                    IF C_QuietOn
                      THEN C_Subsequence(result.messages, C_ErrorIndices(result.messages))
                    ELSE result.messages
       /\ C_QuietOn => \A k \in 1..Len(view) : view[k].errorCount >= 1

\* C14 witness: quiet mode is on, the lint pass returned a file with warnings
\* only and a file with one error between two warnings, and the view holds the
\* second file alone, with the error as its only message
C14_QuietViewKeepsErrorsOnly ==
  /\ C_Aggregated
  /\ C_QuietOn
  /\ Len(C_ReturnedResults) = 2
  /\ C_ReturnedResults[1].errorCount = 0
  /\ C_ReturnedResults[1].warningCount = 2
  /\ Len(C_ReturnedResults[2].messages) = 3
  /\ Len(C_FormatterView) = 1
  /\ C_FormatterView[1].filePath = C_ReturnedResults[2].filePath
  /\ C_FormatterView[1].messages = <<[severity |-> 2]>>

---------------------------------------------------------------------------
(* The order of fix output, formatting and reporting *)

\* the positions of the calls of fn in the call log
C_CallIndices(fn) == {i \in 1..Len(calls) : calls[i].fn = fn}

\* the formatted text was printed
C_Printed ==
  \E i \in 1..Len(console) :
    console[i].stream = "info" /\ console[i].text = "formatted results"

C_OutputFileSet == options.outputFile.t = "string" /\ options.outputFile.v # <<>>

\* no message was taken out of the results: every counted message is listed
C_Unnarrowed(results) ==
  \A i \in 1..Len(results) :
    Len(results[i].messages) = results[i].errorCount + results[i].warningCount

\* C15: in a run whose lint pass returned results, the fix output is called on
\* the results as returned, before the formatter and before the quiet-mode
\* narrowing, quiet or not; the formatter is called once, on the whole filtered
\* view, also when the view is empty; only then the formatted text is written to
\* the output file when outputFile is set and printed otherwise, never both.
C15_FixThenFormatThenReport ==
  lintResults # <<>> =>
    LET fix == C_CallIndices("ESLint.outputFixes")
        fmt == C_CallIndices("formatter.format")
        written == C_CallIndices("writeFileSync")
    IN /\ Cardinality(fix) <= 1 /\ Cardinality(fmt) <= 1 /\ Cardinality(written) <= 1
       /\ \A i \in fix : calls[i].arg # <<>> /\ C_Unnarrowed(calls[i].arg)
       /\ (fix # {} /\ fmt = {}) => \A i \in fix : calls[i].arg = lintResults
       /\ fmt # {} => fix # {} /\ \A i \in fix, j \in fmt : i < j
       /\ \A j \in fmt : calls[j].arg = finalLintResults
       /\ (written # {} \/ C_Printed) =>
            fmt # {} /\ \A j \in fmt, w \in written : j < w
       /\ pc \in {"outputFixes", "loadFormatter", "format", "report"} =>
            written = {} /\ ~C_Printed
       /\ written # {} => C_OutputFileSet /\ ~C_Printed
       /\ C_Printed => ~C_OutputFileSet /\ written = {}
       /\ C_ReturnedNormally =>
            /\ Cardinality(fix) = 1
            /\ Cardinality(fmt) = 1
            /\ IF C_OutputFileSet THEN written # {} ELSE C_Printed

\* C15 witness: quiet mode is on and the results hold warnings only: the fix
\* output got the results with their warnings, the formatter was then called on
\* the empty view, and the text was written to the output file and not printed
C15_EmptyViewFormattedAndWritten ==
  /\ C_ReturnedNormally
  /\ C_QuietOn
  /\ C_OutputFileSet
  /\ C_ReturnedResults # <<>>
  /\ C_ReturnedResults[1].messages # <<>>
  /\ C_FormatterView = <<>>
  /\ C_CallIndices("writeFileSync") # {}
  /\ ~C_Printed

---------------------------------------------------------------------------
(* The concurrent ignore checks *)

\* the checks that have completed
C_Settled == {i \in 1..Len(checks) : checks[i] # Pending}

\* the ignored patterns listed by the error message, one per line after the
\* headline of the all-files-ignored error
C_ListedPatterns(out) ==
  LET lines == C_ErrorLines(out)
      listing == SelectSeq(lines, LAMBDA line : line # <<>> /\ line[1] = "- '")
  IN [k \in 1..Len(listing) |-> Str(SubSeq(listing[k], 2, Len(listing[k]) - 1))]

\* C16: the ignore checks complete in any order; the empty-result error is
\* raised only when every check has completed, and whatever the order of
\* completion the patterns it lists are the supplied patterns whose check
\* returned true, in the order of the input pattern list.
C16_ListIndependentOfCompletionOrder ==
  [][/\ (pc = "ignoreChecks" /\ pc' = "ignoreChecks") =>
          \E i \in 1..Len(checks) \ C_Settled :
            /\ C_Settled' = C_Settled \cup {i}
            /\ checks'[i] = IF options.lintFilePatterns[i] \in ignored
                              THEN options.lintFilePatterns[i] ELSE null
     /\ C_EmptyResultStep =>
          /\ Len(checks) = Len(options.lintFilePatterns)
          /\ C_Settled = 1..Len(checks)
          /\ C_ListedPatterns(outcome') = C_IgnoredInOrder]_vars

\* C16 witness: both patterns are ignored, the second check has completed
\* before the first
C16_SecondCompletedFirst ==
  /\ pc = "ignoreChecks"
  /\ Len(checks) = 2
  /\ checks[1] = Pending
  /\ checks[2] = options.lintFilePatterns[2]
  /\ options.lintFilePatterns[1] \in ignored

---------------------------------------------------------------------------
(* The options bag during a run *)

\* C17 (as stated): no step of a run changes the options bag: every field,
\* cacheLocation included, keeps the value it had when the run started.
C17_OptionsNeverChange == [][options' = options]_vars

\* the step from the working-directory change to the format detection returned
C_StartStep == pc = "start" /\ pc' = "resolve"

\* C17 (amended): the only field of the options bag a run changes is
\* cacheLocation, and only in the step before the linter is resolved: it
\* becomes the given cacheLocation joined with the project name, or null when
\* none was given; every other field keeps its value in every step, and
\* resolving and constructing the linter session changes no field at all.
C17_OnlyCacheLocationChanges ==
  [][/\ \A field \in DOMAIN options \ {"cacheLocation"} : options'[field] = options[field]
     /\ DOMAIN options' = DOMAIN options
     /\ IF C_StartStep
          THEN options'.cacheLocation =
                 IF options.cacheLocation.t = "string" /\ options.cacheLocation.v # <<>>
                   THEN Str(options.cacheLocation.v \o <<"/">>
                            \o Context.target.project)
                 ELSE null
        ELSE options'.cacheLocation = options.cacheLocation
     /\ pc = "resolve" => options' = options]_vars

\* C17 witness: the run was given cacheLocation '.cache' and holds
\* '.cache/app' after its first step
C17_CacheLocationJoined ==
  /\ pc = "resolve"
  /\ options.cacheLocation = Str(<<".cache", "/", "app">>)

---------------------------------------------------------------------------
(* The banners and the outcome *)

\* a line with this text was printed
C_BannerEmitted(text) == \E i \in 1..Len(console) : console[i].text = text

\* C18: in every run without force that prints 'All files pass linting.' the
\* returned success is true, and no run prints both 'All files pass linting.'
\* and the message that the warnings exceed the configured limit.
C18_PassBannerMeansSuccess ==
  (pc = "done" /\ C_BannerEmitted("All files pass linting.")) =>
    /\ options.force # Bool(TRUE) => outcome.success = Bool(TRUE)
    /\ ~C_BannerEmitted("Found too many warnings")
    /\ ~C_ThresholdExceeded(options.maxWarnings, totalWarnings)

====
